---- MODULE Spec2Model ----
(***************************************************************************)
(* Model of the fatbinary crate (fatbinary/src/lib.rs): the container      *)
(* codec FatBinary::read / FatBinary::write over a byte stream, the entry   *)
(* model (FatBinaryEntry::new, new_auto, set_identifier,                   *)
(* set_ptxas_options, decompress, host, producer, entries_mut) and the     *)
(* decompressor.  Bytes are integers 0..255, strings are byte sequences,   *)
(* Option<T> is the empty tuple (None) or a one-element tuple (Some).      *)
(* Numeric header fields are integers, decoded exactly below 2^24; the     *)
(* 32-bit magic is held as two 16-bit halves.                              *)
(***************************************************************************)
EXTENDS Integers, Sequences, FiniteSets, TLC

VARIABLES fatbin, buffer, result, last, nops, written, reader, reads, entry,
          call, dec

vars == <<fatbin, buffer, result, last, nops, written, reader, reads, entry,
          call, dec>>

(***************************************************************************)
(* Bounds of the exploration.                                              *)
(***************************************************************************)
\* longest sequence of operations explored
MaxOps == 5
\* most entries pushed into one container
MaxEntries == 2
\* most iterations of the entry loop of read that are followed
MaxIter == 4
\* decoded integers are exact below 2^24 and held as Huge from there on
Huge == 16777216

(***************************************************************************)
(* Program constants.                                                      *)
(***************************************************************************)
FATBINARY_FLAG_COMPILE_SIZE_64BIT == 1
FATBINARY_FLAG_COMPRESSED == 8192
\* 0xBA55ED50 as its high and low 16-bit halves
FAT_BINARY_MAGIC == [hi |-> 47701, lo |-> 60752]
\* std::mem::size_of::<FatBinaryHeader>()
FatBinaryHeaderSize == 16
\* std::mem::size_of::<FatBinaryEntryHeader>()
FatBinaryEntryHeaderSize == 64

None == <<>>
Some(v) == <<v>>
IsSome(o) == o # <<>>
Unwrap(o) == o[1]

(***************************************************************************)
(* Little-endian integer codec (to_le_bytes / read_le).                    *)
(***************************************************************************)
RECURSIVE ToLE(_, _)
ToLE(v, n) == IF n = 0 THEN <<>> ELSE <<v % 256>> \o ToLE(v \div 256, n - 1)

\* read_le; a value of 2^24 or more, which no offset or length of the
\* explored streams reaches, is held as Huge
RECURSIVE FromLE(_)
FromLE(bs) ==
    IF bs = <<>> THEN 0
    ELSE LET t == FromLE(Tail(bs))
         IN  IF t >= Huge \div 256 THEN Huge ELSE Head(bs) + 256 * t

\* a u32 too large for one integer: [hi, lo] of its little-endian bytes
U32ToLE(w) == ToLE(w.lo, 2) \o ToLE(w.hi, 2)
\* the four bytes taken most significant first
U32FromBE(bs) == [hi |-> FromLE(<<bs[2], bs[1]>>), lo |-> FromLE(<<bs[4], bs[3]>>)]

U32FromLE(bs) == [hi |-> FromLE(SubSeq(bs, 3, 4)), lo |-> FromLE(SubSeq(bs, 1, 2))]

(***************************************************************************)
(* String::from_utf8: well-formed UTF-8 byte sequences.                    *)
(***************************************************************************)
Cont(b) == b >= 128 /\ b <= 191

RECURSIVE IsUtf8(_)
IsUtf8(bs) ==
    IF bs = <<>> THEN TRUE
    ELSE LET b == bs[1]
             n == Len(bs)
         IN  IF b <= 127 THEN IsUtf8(Tail(bs))
             ELSE IF b >= 194 /\ b <= 223
             THEN n >= 2 /\ Cont(bs[2]) /\ IsUtf8(SubSeq(bs, 3, n))
             ELSE IF b >= 224 /\ b <= 239
             THEN /\ n >= 3
                  /\ Cont(bs[2]) /\ Cont(bs[3])
                  /\ (b = 224 => bs[2] >= 160)
                  /\ (b = 237 => bs[2] <= 159)
                  /\ IsUtf8(SubSeq(bs, 4, n))
             ELSE IF b >= 240 /\ b <= 244
             THEN /\ n >= 4
                  /\ Cont(bs[2]) /\ Cont(bs[3]) /\ Cont(bs[4])
                  /\ (b = 240 => bs[2] >= 144)
                  /\ (b = 244 => bs[2] <= 143)
                  /\ IsUtf8(SubSeq(bs, 5, n))
             ELSE FALSE

(***************************************************************************)
(* Entry model.                                                            *)
(***************************************************************************)
\* new with options_offset 0 for an ELF entry
NewElfNoOptions(is_elf, sm_arch, major, minor, is_64bit, payload) ==
    [entry_header |->
        [kind |-> IF is_elf THEN 2 ELSE 1,
         unknown1 |-> 257,
         header_size |-> 64,
         size |-> Len(payload),
         compressed_size |-> 0,
         options_offset |-> IF is_elf THEN 0 ELSE 64,
         minor |-> minor,
         major |-> major,
         arch |-> sm_arch,
         identifier_offset |-> 0,
         identifier_len |-> 0,
         flags |-> IF is_64bit THEN FATBINARY_FLAG_COMPILE_SIZE_64BIT ELSE 0,
         zero |-> 0,
         decompressed_size |-> 0],
     identifier |-> None,
     ptxas_options |-> None,
     payload |-> payload]

\* FatBinaryEntry::new
New(is_elf, sm_arch, major, minor, is_64bit, payload) ==
    [entry_header |->
        [kind |-> IF is_elf THEN 2 ELSE 1,
         unknown1 |-> 257,
         header_size |-> 64,
         size |-> Len(payload),
         compressed_size |-> 0,
         options_offset |-> 64,
         minor |-> minor,
         major |-> major,
         arch |-> sm_arch,
         identifier_offset |-> 0,
         identifier_len |-> 0,
         flags |-> IF is_64bit THEN FATBINARY_FLAG_COMPILE_SIZE_64BIT ELSE 0,
         zero |-> 0,
         decompressed_size |-> 0],
     identifier |-> None,
     ptxas_options |-> None,
     payload |-> payload]

\* FatBinaryEntry::set_identifier
set_identifier(e, identifier) == [e EXCEPT !.identifier = Some(identifier)]

\* FatBinaryEntry::set_ptxas_options
set_ptxas_options(e, options) == [e EXCEPT !.ptxas_options = Some(options)]

(***************************************************************************)
(* The 64 bytes of a FatBinaryEntryHeader, field by field.                 *)
(***************************************************************************)
EntryHeaderBytes(h) ==
    ToLE(h.kind, 2) \o ToLE(h.unknown1, 2) \o ToLE(h.header_size, 4)
    \o ToLE(h.size, 8) \o ToLE(h.compressed_size, 4) \o ToLE(h.options_offset, 4)
    \o ToLE(h.minor, 2) \o ToLE(h.major, 2) \o ToLE(h.arch, 4)
    \o ToLE(h.identifier_offset, 4) \o ToLE(h.identifier_len, 4)
    \o ToLE(h.flags, 8) \o ToLE(h.zero, 8) \o ToLE(h.decompressed_size, 8)

\* #[derive(BinRead)] of FatBinaryEntryHeader, read little-endian
ParseEntryHeader(bs) ==
    [kind |-> FromLE(SubSeq(bs, 1, 2)),
     unknown1 |-> FromLE(SubSeq(bs, 3, 4)),
     header_size |-> FromLE(SubSeq(bs, 5, 8)),
     size |-> FromLE(SubSeq(bs, 9, 16)),
     compressed_size |-> FromLE(SubSeq(bs, 17, 20)),
     options_offset |-> FromLE(SubSeq(bs, 21, 24)),
     minor |-> FromLE(SubSeq(bs, 25, 26)),
     major |-> FromLE(SubSeq(bs, 27, 28)),
     arch |-> FromLE(SubSeq(bs, 29, 32)),
     identifier_offset |-> FromLE(SubSeq(bs, 33, 36)),
     identifier_len |-> FromLE(SubSeq(bs, 37, 40)),
     flags |-> FromLE(SubSeq(bs, 41, 48)),
     zero |-> FromLE(SubSeq(bs, 49, 56)),
     decompressed_size |-> FromLE(SubSeq(bs, 57, 64))]

(***************************************************************************)
(* FatBinary::write.                                                       *)
(***************************************************************************)
\* Option<String>::as_ref().map(|s| s.as_bytes()).unwrap_or(&[])
BytesOrEmpty(o) == IF IsSome(o) THEN Unwrap(o) ELSE <<>>

\* sizing pass: the tuple pushed to entries_data for one entry
EntryData(e) ==
    LET identifier_bytes == BytesOrEmpty(e.identifier)
        ptxas_options_bytes == BytesOrEmpty(e.ptxas_options)
        identifier_len == Len(identifier_bytes)
        ptxas_options_len == Len(ptxas_options_bytes)
        header_size == e.entry_header.header_size
        ptxas_options_offset == header_size + 8
        identifier_offset == ptxas_options_offset + ptxas_options_len
        header_total == header_size + 8 + ptxas_options_len + identifier_len
    IN  [identifier_bytes |-> identifier_bytes,
         ptxas_options_bytes |-> ptxas_options_bytes,
         identifier_len |-> identifier_len,
         ptxas_options_len |-> ptxas_options_len,
         identifier_offset |-> identifier_offset,
         ptxas_options_offset |-> ptxas_options_offset,
         header_total |-> header_total]

\* entry_total of the sizing pass
EntryTotal(e) == EntryData(e).header_total + e.entry_header.size

\* total_size accumulated by the sizing pass
RECURSIVE TotalSize(_)
TotalSize(entries) ==
    IF entries = <<>> THEN 0
    ELSE EntryTotal(Head(entries)) + TotalSize(Tail(entries))

\* the container header with the magic written most significant byte first
ContainerHeaderBytesBE(total_size) ==
    <<186, 85, 237, 80>> \o ToLE(1, 2) \o ToLE(FatBinaryHeaderSize, 2)
    \o ToLE(total_size, 8)

\* the 16 bytes of the FatBinaryHeader written first
ContainerHeaderBytes(total_size) ==
    U32ToLE(FAT_BINARY_MAGIC) \o ToLE(1, 2) \o ToLE(FatBinaryHeaderSize, 2)
    \o ToLE(total_size, 8)

\* the copy of the entry header that the emission pass updates and writes
WrittenHeader(e) ==
    LET d == EntryData(e)
    IN  [e.entry_header EXCEPT !.header_size = d.header_total,
                               !.identifier_offset = d.identifier_offset,
                               !.identifier_len = d.identifier_len]

\* an entry emitted with get_payload(), the first compressed_size bytes of a
\* compressed payload
EntryBytesCompressed(e) ==
    LET d == EntryData(e)
        h == e.entry_header
    IN  EntryHeaderBytes(WrittenHeader(e))
        \o ToLE(d.ptxas_options_offset, 4) \o ToLE(d.ptxas_options_len, 4)
        \o d.ptxas_options_bytes
        \o d.identifier_bytes
        \o (IF /\ (h.flags \div FATBINARY_FLAG_COMPRESSED) % 2 = 1
               /\ h.compressed_size <= Len(e.payload)
            THEN SubSeq(e.payload, 1, h.compressed_size)
            ELSE e.payload)

\* emission pass: the bytes written for one entry
EntryBytes(e) ==
    LET d == EntryData(e)
    IN  EntryHeaderBytes(WrittenHeader(e))
        \o ToLE(d.ptxas_options_offset, 4) \o ToLE(d.ptxas_options_len, 4)
        \o d.ptxas_options_bytes
        \o d.identifier_bytes
        \o e.payload

RECURSIVE AllEntryBytes(_)
AllEntryBytes(entries) ==
    IF entries = <<>> THEN <<>>
    ELSE EntryBytes(Head(entries)) \o AllEntryBytes(Tail(entries))

\* FatBinary::write into an empty writer
WriteBytes(entries) ==
    ContainerHeaderBytes(TotalSize(entries)) \o AllEntryBytes(entries)

(***************************************************************************)
(* FatBinary::read.  A reader is a byte sequence and a position (0-based); *)
(* seeking past the end succeeds, reading past the end is an error.        *)
(***************************************************************************)
\* read_exact of n bytes at pos succeeds (reading no byte always does)
CanRead(buf, pos, n) == n = 0 \/ pos + n <= Len(buf)
ReadExact(buf, pos, n) == SubSeq(buf, pos + 1, pos + n)

Err(tag) == [tag |-> tag]

\* the options parse of the earlier reader: a header larger than 64 bytes
\* must have options_offset 0x40, where the descriptor is then read
ParseOptionsStrict(buf, header_offset, h) ==
    IF h.header_size > FatBinaryEntryHeaderSize
    THEN IF h.options_offset # 64
         THEN [tag |-> "InvalidOffset", expected |-> 64, got |-> h.options_offset]
         ELSE LET p == header_offset + 64
              IN  IF ~CanRead(buf, p, 8) THEN Err("Binread")
                  ELSE LET ptxas_options_offset == FromLE(ReadExact(buf, p, 4))
                           ptxas_options_size == FromLE(ReadExact(buf, p + 4, 4))
                           q == header_offset + ptxas_options_offset
                       IN  IF ptxas_options_offset # 0
                           THEN IF ~CanRead(buf, q, ptxas_options_size)
                                THEN Err("Io")
                                ELSE LET bytes == ReadExact(buf, q, ptxas_options_size)
                                     IN  IF IsUtf8(bytes)
                                         THEN [tag |-> "Ok", val |-> Some(bytes)]
                                         ELSE Err("FromUtf8")
                           ELSE [tag |-> "Ok", val |-> None]
    ELSE [tag |-> "Ok", val |-> None]

\* the ptxas options branch of the entry loop: an error or Option<String>
ParseOptions(buf, header_offset, h) ==
    IF h.options_offset > 0
    THEN LET p == header_offset + h.options_offset
         IN  IF ~CanRead(buf, p, 8) THEN Err("Binread")
             ELSE LET ptxas_options_offset == FromLE(ReadExact(buf, p, 4))
                      ptxas_options_size == FromLE(ReadExact(buf, p + 4, 4))
                      q == header_offset + ptxas_options_offset
                  IN  IF ptxas_options_offset # 0
                      THEN IF ~CanRead(buf, q, ptxas_options_size) THEN Err("Io")
                           ELSE LET bytes == ReadExact(buf, q, ptxas_options_size)
                                IN  IF IsUtf8(bytes)
                                    THEN [tag |-> "Ok", val |-> Some(bytes)]
                                    ELSE Err("FromUtf8")
                      ELSE [tag |-> "Ok", val |-> None]
    ELSE [tag |-> "Ok", val |-> None]

\* an object name branch taking the identifier where the ptxas options end,
\* or right after the 64 header bytes when there is no descriptor
ParseIdentifierAdjacent(buf, header_offset, h) ==
    IF h.identifier_offset > 0
    THEN LET d == header_offset + h.options_offset
             after == IF h.options_offset > 0 /\ CanRead(buf, d, 8)
                      THEN header_offset + FromLE(ReadExact(buf, d, 4))
                                         + FromLE(ReadExact(buf, d + 4, 4))
                      ELSE header_offset + FatBinaryEntryHeaderSize
         IN  IF ~CanRead(buf, after, h.identifier_len) THEN Err("Io")
             ELSE LET bytes == ReadExact(buf, after, h.identifier_len)
                  IN  IF IsUtf8(bytes)
                      THEN [tag |-> "Ok", val |-> Some(bytes)]
                      ELSE Err("FromUtf8")
    ELSE [tag |-> "Ok", val |-> None]

\* the object name branch of the entry loop: an error or Option<String>
ParseIdentifier(buf, header_offset, h) ==
    IF h.identifier_offset > 0
    THEN LET p == header_offset + h.identifier_offset
         IN  IF ~CanRead(buf, p, h.identifier_len) THEN Err("Io")
             ELSE LET bytes == ReadExact(buf, p, h.identifier_len)
                  IN  IF IsUtf8(bytes)
                      THEN [tag |-> "Ok", val |-> Some(bytes)]
                      ELSE Err("FromUtf8")
    ELSE [tag |-> "Ok", val |-> None]

\* one iteration of the entry loop with the reader at pos: an error, or the
\* entry pushed and the position after its payload
ReadEntryAt(buf, pos) ==
    IF ~CanRead(buf, pos, FatBinaryEntryHeaderSize) THEN Err("Binread")
    ELSE LET header_offset == pos
             h == ParseEntryHeader(ReadExact(buf, pos, FatBinaryEntryHeaderSize))
             o == ParseOptions(buf, header_offset, h)
             i == ParseIdentifier(buf, header_offset, h)
             payload_pos == header_offset + h.header_size
         IN  IF o.tag # "Ok" THEN o
             ELSE IF i.tag # "Ok" THEN i
             ELSE IF ~CanRead(buf, payload_pos, h.size) THEN Err("Io")
             ELSE [tag |-> "Ok",
                   entry |-> [entry_header |-> h,
                              identifier |-> i.val,
                              ptxas_options |-> o.val,
                              payload |-> ReadExact(buf, payload_pos, h.size)],
                   pos |-> payload_pos + h.size]

\* the entry loop: while current_size < header.size { ... }
RECURSIVE ReadLoop(_, _, _, _, _, _)
ReadLoop(buf, pos, current_size, size, entries, fuel) ==
    IF ~(current_size < size)
    THEN [tag |-> "Ok", fatbin |-> entries, pos |-> pos]
    ELSE IF fuel = 0 THEN Err("Running")
    ELSE LET r == ReadEntryAt(buf, pos)
         IN  IF r.tag # "Ok" THEN r
             ELSE ReadLoop(buf, r.pos,
                           current_size + r.entry.entry_header.header_size
                                        + r.entry.entry_header.size,
                           size, Append(entries, r.entry), fuel - 1)

\* the container header read and validated at pos: an error, or its size
ReadHeader(buf, pos) ==
    IF ~CanRead(buf, pos, FatBinaryHeaderSize) THEN Err("Binread")
    ELSE LET magic == U32FromLE(ReadExact(buf, pos, 4))
             version == FromLE(ReadExact(buf, pos + 4, 2))
             header_size == FromLE(ReadExact(buf, pos + 6, 2))
         IN  IF magic # FAT_BINARY_MAGIC
             THEN [tag |-> "InvalidMagic", expected |-> FAT_BINARY_MAGIC, got |-> magic]
             ELSE IF version # 1
             THEN [tag |-> "InvalidVersion", expected |-> 1, got |-> version]
             ELSE IF header_size # FatBinaryHeaderSize
             THEN [tag |-> "InvalidHeaderSize", expected |-> FatBinaryHeaderSize,
                   got |-> header_size]
             ELSE [tag |-> "Ok", size |-> FromLE(ReadExact(buf, pos + 8, 8))]

\* FatBinary::read from a reader positioned at pos
Read(buf, pos) ==
    LET h == ReadHeader(buf, pos)
    IN  IF h.tag # "Ok" THEN h
        ELSE ReadLoop(buf, pos + FatBinaryHeaderSize, 0, h.size, <<>>, MaxIter)

(***************************************************************************)
(* Inputs: the arguments the callers pass and the byte streams they read.  *)
(***************************************************************************)
\* "A", and the ELF magic followed by one byte
Payloads == { <<65>>, <<127, 69, 76, 70, 0>> }
\* "k"
Identifiers == { <<107>> }
\* "-O"
PtxasOptions == { <<45, 79>> }
SmArch == 80
VersionMajor == 8
VersionMinor == 3

\* a container header followed by body
RawContainer(magic, version, header_size, size, body) ==
    U32ToLE(magic) \o ToLE(version, 2) \o ToLE(header_size, 2) \o ToLE(size, 8)
    \o body

\* header fields of an entry as the NVIDIA tools emit them (64-bit, Linux, CUDA)
RawHeader(kind, header_size, size, options_offset, identifier_offset, identifier_len) ==
    [kind |-> kind, unknown1 |-> 257, header_size |-> header_size, size |-> size,
     compressed_size |-> 0, options_offset |-> options_offset,
     minor |-> VersionMinor, major |-> VersionMajor, arch |-> SmArch,
     identifier_offset |-> identifier_offset, identifier_len |-> identifier_len,
     flags |-> 21, zero |-> 0, decompressed_size |-> 0]

\* conventional layout: header, descriptor at 0x40, ptxas options, identifier, payload
ConventionalEntry(kind, opts, id, payload) ==
    LET P == Len(opts)
        I == Len(id)
    IN  EntryHeaderBytes(RawHeader(kind, 72 + P + I, Len(payload), 64,
                                   IF I > 0 THEN 72 + P ELSE 0, I))
        \o ToLE(IF P > 0 THEN 72 ELSE 0, 4) \o ToLE(P, 4)
        \o opts \o id \o payload

\* an ELF entry without trailing region: header_size 64, options_offset 0
BareEntry(payload) ==
    EntryHeaderBytes(RawHeader(2, 64, Len(payload), 0, 0, 0)) \o payload

\* identifier first, then the descriptor, then the ptxas options
ShiftedEntry(opts, id, payload) ==
    LET P == Len(opts)
        I == Len(id)
    IN  EntryHeaderBytes(RawHeader(1, 72 + P + I, Len(payload), 64 + I, 64, I))
        \o id \o ToLE(IF P > 0 THEN 72 + I ELSE 0, 4) \o ToLE(P, 4)
        \o opts \o payload

Valid(body) == RawContainer(FAT_BINARY_MAGIC, 1, 16, Len(body), body)

ConventionalInputs ==
    { Valid(ConventionalEntry(1, <<45, 79>>, <<107>>, <<65>>)),
      Valid(ConventionalEntry(1, <<>>, <<>>, <<65>>)),
      Valid(ConventionalEntry(2, <<>>, <<107>>, <<127, 69, 76, 70, 0>>)
            \o ConventionalEntry(1, <<45, 79>>, <<>>, <<65>>)) }

BareInputs == { Valid(BareEntry(<<127, 69, 76, 70, 0>>)) }

ShiftedInputs == { Valid(ShiftedEntry(<<45, 79>>, <<107>>, <<65>>)) }

\* corrupt container headers, each followed by a well-formed entry
CorruptInputs ==
    LET body == ConventionalEntry(1, <<>>, <<>>, <<65>>)
    IN  { RawContainer([hi |-> 61374, lo |-> 44510], 1, 16, Len(body), body),
          RawContainer(FAT_BINARY_MAGIC, 2, 16, Len(body), body),
          RawContainer(FAT_BINARY_MAGIC, 1, 32, Len(body), body),
          RawContainer([hi |-> 61374, lo |-> 44510], 2, 32, Len(body), body) }

\* the container size is smaller or larger than the entries that follow
MissizedInputs ==
    LET body == ConventionalEntry(1, <<>>, <<>>, <<65>>)
    IN  { RawContainer(FAT_BINARY_MAGIC, 1, 16, 10, body),
          RawContainer(FAT_BINARY_MAGIC, 1, 16, Len(body) + 1, body),
          SubSeq(Valid(body), 1, 12) }

Inputs ==
    ConventionalInputs \cup BareInputs \cup ShiftedInputs \cup CorruptInputs
    \cup MissizedInputs

(***************************************************************************)
(* State machine.  fatbin is the container the caller holds, buffer the    *)
(* byte stream, result the value of the last read, last the last           *)
(* operation and nops the number of operations so far.                     *)
(***************************************************************************)
\* the parts of the state a specification does not use stay as they start
NoReader ==
    [pc |-> "idle", pos |-> 0, size |-> 0, current_size |-> 0, entries |-> <<>>]
NoCall == [op |-> "none"]
NoDec == [pc |-> "idle"]

IdleStream == written = <<>> /\ reader = NoReader /\ reads = <<>>
IdleEntry == entry = None /\ call = NoCall
IdleDec == dec = NoDec
IdleContainer ==
    /\ fatbin = <<>>
    /\ result = [tag |-> "None"]
    /\ last = "new"
    /\ nops = 0

Init ==
    /\ IdleContainer
    /\ buffer = <<>>
    /\ IdleStream
    /\ IdleEntry
    /\ IdleDec

Step(op) ==
    /\ nops < MaxOps
    /\ nops' = nops + 1
    /\ last' = op
    /\ UNCHANGED <<written, reader, reads, entry, call, dec>>

\* entries_mut().push(FatBinaryEntry::new(..))
PushNew ==
    /\ Len(fatbin) < MaxEntries
    /\ \E is_elf \in BOOLEAN, is_64bit \in BOOLEAN, payload \in Payloads :
          fatbin' = Append(fatbin, New(is_elf, SmArch, VersionMajor, VersionMinor,
                                       is_64bit, payload))
    /\ Step("push")
    /\ UNCHANGED <<buffer, result>>

\* entries_mut().remove(i)
RemoveEntry ==
    /\ \E i \in 1..Len(fatbin) :
          fatbin' = SubSeq(fatbin, 1, i - 1) \o SubSeq(fatbin, i + 1, Len(fatbin))
    /\ Step("remove")
    /\ UNCHANGED <<buffer, result>>

\* entries_mut()[i].set_identifier(identifier)
SetIdentifier ==
    /\ \E i \in 1..Len(fatbin), identifier \in Identifiers :
          fatbin' = [fatbin EXCEPT ![i] = set_identifier(@, identifier)]
    /\ Step("set_identifier")
    /\ UNCHANGED <<buffer, result>>

\* entries_mut()[i].set_ptxas_options(options)
SetPtxasOptions ==
    /\ \E i \in 1..Len(fatbin), options \in PtxasOptions :
          fatbin' = [fatbin EXCEPT ![i] = set_ptxas_options(@, options)]
    /\ Step("set_ptxas_options")
    /\ UNCHANGED <<buffer, result>>

\* fatbin.write(Cursor::new(&mut buffer)) with a fresh buffer
Write ==
    /\ buffer' = WriteBytes(fatbin)
    /\ Step("write")
    /\ UNCHANGED <<fatbin, result>>

\* FatBinary::read(Cursor::new(&buffer)); the caller keeps the container read
ReadBuffer ==
    /\ result' = Read(buffer, 0)
    /\ fatbin' = IF result'.tag = "Ok" THEN result'.fatbin ELSE fatbin
    /\ Step("read")
    /\ UNCHANGED buffer

\* the caller opens a byte stream produced elsewhere
Input ==
    /\ \E b \in Inputs : buffer' = b
    /\ Step("input")
    /\ UNCHANGED <<fatbin, result>>

Next ==
    \/ PushNew
    \/ RemoveEntry
    \/ SetIdentifier
    \/ SetPtxasOptions
    \/ Write
    \/ ReadBuffer
    \/ Input

Spec == Init /\ [][Next]_vars

\* every integer held in the state was decoded exactly
Exact ==
    \A i \in 1..Len(fatbin) :
        \A f \in DOMAIN fatbin[i].entry_header : fatbin[i].entry_header[f] < Huge

(***************************************************************************)
(* Reading the written stream back, for the properties below.  After a     *)
(* write step buffer holds the bytes written from fatbin.                  *)
(***************************************************************************)
\* position in buffer of the first byte write emitted for entry k
RECURSIVE EntryStart(_)
EntryStart(k) ==
    IF k = 1 THEN FatBinaryHeaderSize
    ELSE EntryStart(k - 1) + Len(EntryBytes(fatbin[k - 1]))

\* little-endian field at bytes lo..hi (1-based) of the k-th emitted entry
WrittenField(k, lo, hi) ==
    FromLE(SubSeq(buffer, EntryStart(k) + lo, EntryStart(k) + hi))

WrittenHeaderSize(k) == WrittenField(k, 5, 8)
WrittenOptionsOffset(k) == WrittenField(k, 21, 24)
WrittenIdentifierOffset(k) == WrittenField(k, 33, 36)
\* first word of the 8-byte descriptor emitted at byte 64 of the entry
WrittenPtxasOptionsOffset(k) == WrittenField(k, 65, 68)

\* the entry is what new returns, up to set_identifier and set_ptxas_options
Synthesized(e) ==
    LET h == e.entry_header
    IN  /\ h.kind \in {1, 2}
        /\ h.flags \in {0, 1}
        /\ h = New(h.kind = 2, h.arch, h.major, h.minor, h.flags = 1,
                   e.payload).entry_header

AllSynthesized == \A k \in 1..Len(fatbin) : Synthesized(fatbin[k])

\* C1: a container built in memory is read back from its written bytes
\* unchanged: reading right after writing succeeds and returns the same
\* entries in the same order, each with the same header fields, identifier,
\* ptxas options (absent stays absent) and payload.
C1_RoundTrip ==
    [][(last = "write" /\ AllSynthesized /\ last' = "read")
          => (result'.tag = "Ok" /\ fatbin' = fatbin)]_vars

\* C2: for every entry write emits, the written header_size is
\* 64 + 8 + P + I, and that many bytes are emitted before its payload.
C2_WrittenHeaderSize ==
    last = "write" =>
        \A k \in 1..Len(fatbin) :
            LET e == fatbin[k]
                P == Len(BytesOrEmpty(e.ptxas_options))
                I == Len(BytesOrEmpty(e.identifier))
                start == EntryStart(k)
                len == Len(e.payload)
            IN  /\ WrittenHeaderSize(k) = 64 + 8 + P + I
                /\ SubSeq(buffer, start + WrittenHeaderSize(k) + 1,
                          start + WrittenHeaderSize(k) + len) = e.payload
                /\ IF k < Len(fatbin)
                   THEN EntryStart(k + 1) = start + WrittenHeaderSize(k) + len
                   ELSE Len(buffer) = start + WrittenHeaderSize(k) + len

RECURSIVE SumWritten(_)
SumWritten(k) ==
    IF k = 0 THEN 0
    ELSE SumWritten(k - 1) + WrittenHeaderSize(k) + Len(fatbin[k].payload)

\* C3: the written container size equals the sum over entries of written
\* header_size plus payload length, and equals the number of bytes emitted
\* after the 16-byte container header.
C3_ContainerSize ==
    last = "write" =>
        LET size == FromLE(SubSeq(buffer, 9, 16))
        IN  /\ size = SumWritten(Len(fatbin))
            /\ size = Len(buffer) - 16

\* C4: an entry without identifier and without ptxas options is emitted
\* with header_size 72, ptxas_options_offset 0 and identifier_offset 0.
C4_NoTrailingStrings ==
    last = "write" =>
        \A k \in 1..Len(fatbin) :
            (fatbin[k].identifier = None /\ fatbin[k].ptxas_options = None)
                => /\ WrittenHeaderSize(k) = 72
                   /\ WrittenPtxasOptionsOffset(k) = 0
                   /\ WrittenIdentifierOffset(k) = 0

\* C5: writing the container read from a conventionally laid out stream
\* reproduces that stream.
C5_Reemit ==
    [][(last = "read" /\ result.tag = "Ok" /\ buffer \in ConventionalInputs
        /\ last' = "write") => buffer' = buffer]_vars

\* C6: every emitted entry has options_offset 0x40, so ptxas options set on
\* an entry (here: one whose in-memory header_size is 64) are read back.
C6_OptionsOffset ==
    last = "write" =>
        /\ \A k \in 1..Len(fatbin) : WrittenOptionsOffset(k) = 64
        /\ (\A k \in 1..Len(fatbin) : fatbin[k].entry_header.header_size = 64)
              => LET r == Read(buffer, 0)
                 IN  /\ r.tag = "Ok"
                     /\ Len(r.fatbin) = Len(fatbin)
                     /\ \A k \in 1..Len(fatbin) :
                            IsSome(fatbin[k].ptxas_options)
                               => r.fatbin[k].ptxas_options = fatbin[k].ptxas_options

EmptyContainerBytes == <<80, 237, 85, 186, 1, 0, 16, 0, 0, 0, 0, 0, 0, 0, 0, 0>>

\* C7: writing a container with zero entries produces exactly the bytes
\* 50 ED 55 BA 01 00 10 00 and eight zero bytes, and reading those 16 bytes
\* yields a container with zero entries.
C7_EmptyContainer ==
    /\ (last = "write" /\ fatbin = <<>>) => buffer = EmptyContainerBytes
    /\ (last = "read" /\ buffer = EmptyContainerBytes)
          => (result.tag = "Ok" /\ result.fatbin = <<>> /\ fatbin = <<>>)

C7_Witness ==
    /\ last = "read"
    /\ buffer = EmptyContainerBytes
    /\ result.tag = "Ok"
    /\ fatbin = <<>>

\* C8: when the 16 header bytes are there, read returns InvalidMagic if the
\* little-endian magic is not 0xBA55ED50, else InvalidVersion if the version
\* is not 1, else InvalidHeaderSize if header_size is not 16, each with the
\* expected constant and the observed value (DE AD BE EF gives 0xEFBEADDE),
\* and the result then holds no container.
C8_HeaderErrors ==
    (last = "read" /\ Len(buffer) >= 16) =>
        LET magic == [hi |-> 256 * buffer[4] + buffer[3],
                      lo |-> 256 * buffer[2] + buffer[1]]
            version == 256 * buffer[6] + buffer[5]
            header_size == 256 * buffer[8] + buffer[7]
            expected == [hi |-> 47701, lo |-> 60752]
        IN  /\ magic # expected
                => result = [tag |-> "InvalidMagic", expected |-> expected,
                             got |-> magic]
            /\ (magic = expected /\ version # 1)
                => result = [tag |-> "InvalidVersion", expected |-> 1,
                             got |-> version]
            /\ (magic = expected /\ version = 1 /\ header_size # 16)
                => result = [tag |-> "InvalidHeaderSize", expected |-> 16,
                             got |-> header_size]
            /\ SubSeq(buffer, 1, 4) = <<222, 173, 190, 239>>
                => result.got = [hi |-> 61374, lo |-> 44510]
            /\ (magic # expected \/ version # 1 \/ header_size # 16)
                => "fatbin" \notin DOMAIN result

C8_Witness ==
    /\ last = "read"
    /\ Len(buffer) >= 16
    /\ SubSeq(buffer, 1, 4) = <<222, 173, 190, 239>>
    /\ result.tag = "InvalidMagic"
    /\ result.got = [hi |-> 61374, lo |-> 44510]

\* the stream starts with a valid container header announcing entries and
\* holds the 64 bytes of a first entry header
HasFirstEntry ==
    /\ Len(buffer) >= 80
    /\ SubSeq(buffer, 1, 8) = <<80, 237, 85, 186, 1, 0, 16, 0>>
    /\ FromLE(SubSeq(buffer, 9, 16)) > 0

\* options_offset field of the first entry of the stream
FirstOptionsOffset == FromLE(SubSeq(buffer, 16 + 21, 16 + 24))

\* C9 as stated: read returns InvalidOffset (expected 0x40, got the observed
\* value) for an entry whose options_offset is nonzero and not 0x40.
C9_InvalidOffset ==
    (last = "read" /\ HasFirstEntry /\ FirstOptionsOffset \notin {0, 64})
        => result = [tag |-> "InvalidOffset", expected |-> 64,
                     got |-> FirstOptionsOffset]

\* C9 amended: read never returns InvalidOffset; for an entry whose
\* options_offset is nonzero, whether or not it is 0x40, read takes the
\* descriptor at entry start + options_offset, and a container it returns
\* has the ptxas options that descriptor locates (none when its offset is 0).
C9_FollowsOptionsOffset ==
    (last = "read" /\ HasFirstEntry /\ FirstOptionsOffset > 0) =>
        LET d == 16 + FirstOptionsOffset
            off == FromLE(SubSeq(buffer, d + 1, d + 4))
            size == FromLE(SubSeq(buffer, d + 5, d + 8))
        IN  /\ result.tag # "InvalidOffset"
            /\ result.tag = "Ok"
                => result.fatbin[1].ptxas_options =
                      IF off = 0 THEN <<>>
                      ELSE <<SubSeq(buffer, 16 + off + 1, 16 + off + size)>>

C9_Witness ==
    /\ last = "read"
    /\ HasFirstEntry
    /\ FirstOptionsOffset \notin {0, 64}
    /\ result.tag = "Ok"
    /\ result.fatbin[1].ptxas_options = <<(<<45, 79>>)>>

RECURSIVE SumSizes(_)
SumSizes(entries) ==
    IF entries = <<>> THEN 0
    ELSE Head(entries).entry_header.header_size + Head(entries).entry_header.size
         + SumSizes(Tail(entries))

\* C10: read succeeds only if the sum of header_size + size over the parsed
\* entries equals the size of the container header.
C10_ExactSize ==
    (last = "read" /\ result.tag = "Ok")
        => SumSizes(result.fatbin) = FromLE(SubSeq(buffer, 9, 16))

(***************************************************************************)
(* Reading a stream of containers one after the other, as the dump tool    *)
(* does: while the position is before the end, read the next container.    *)
(* reader is the call in progress, one step per iteration of its entry     *)
(* loop; reads collects what the calls returned.                           *)
(***************************************************************************)
\* an entry header declaring header_size and size, everything else zero
ShortHeader(header_size, size) ==
    EntryHeaderBytes([kind |-> 0, unknown1 |-> 0, header_size |-> header_size,
                      size |-> size, compressed_size |-> 0, options_offset |-> 0,
                      minor |-> 0, major |-> 0, arch |-> 0,
                      identifier_offset |-> 0, identifier_len |-> 0,
                      flags |-> 0, zero |-> 0, decompressed_size |-> 0])

\* containers of size > 0 whose entry headers declare less than 64 bytes
ShortHeaderInputs ==
    { RawContainer(FAT_BINARY_MAGIC, 1, 16, 1, ShortHeader(0, 0)),
      RawContainer(FAT_BINARY_MAGIC, 1, 16, 2, ShortHeader(0, 1) \o <<65>>),
      RawContainer(FAT_BINARY_MAGIC, 1, 16, 32, ShortHeader(32, 0)),
      RawContainer(FAT_BINARY_MAGIC, 1, 16, 64, ShortHeader(32, 0) \o ShortHeader(0, 0)),
      RawContainer(FAT_BINARY_MAGIC, 1, 16, 65, ShortHeader(63, 1) \o <<65>>),
      RawContainer(FAT_BINARY_MAGIC, 1, 16, 3, ShortHeader(1, 0) \o <<0, 0>>) }

\* containers built in memory with new, set_identifier and set_ptxas_options
BuiltContainers ==
    LET ptx == New(FALSE, SmArch, VersionMajor, VersionMinor, TRUE, <<65>>)
        elf == New(TRUE, SmArch, VersionMajor, VersionMinor, TRUE,
                   <<127, 69, 76, 70, 0>>)
        named == set_ptxas_options(set_identifier(ptx, <<107>>), <<45, 79>>)
    IN  { <<>>, <<ptx>>, <<elf>>, <<named>>, <<elf, named>>, <<named, ptx>> }

InitRead ==
    /\ IdleContainer
    /\ IdleEntry
    /\ IdleDec
    /\ reader = NoReader
    /\ reads = <<>>
    /\ \/ /\ written = <<>>
          /\ buffer \in Inputs \cup ShortHeaderInputs
       \/ \E c1 \in BuiltContainers, c2 \in BuiltContainers :
             /\ written = <<c1, c2>>
             /\ buffer = WriteBytes(c1) \o WriteBytes(c2)

\* FatBinary::read called at the current position: the container header
ReadOpen ==
    /\ reader.pc = "idle"
    /\ reader.pos < Len(buffer)
    /\ LET h == ReadHeader(buffer, reader.pos)
       IN  IF h.tag # "Ok"
           THEN /\ reader' = [reader EXCEPT !.pc = "failed"]
                /\ reads' = Append(reads, h)
           ELSE /\ reader' = [pc |-> "loop",
                              pos |-> reader.pos + FatBinaryHeaderSize,
                              size |-> h.size,
                              current_size |-> 0,
                              entries |-> <<>>]
                /\ reads' = reads
    /\ UNCHANGED <<fatbin, buffer, result, last, nops, written, entry, call, dec>>

\* one iteration of the entry loop (followed for at most MaxIter entries)
ReadEntry ==
    /\ reader.pc = "loop"
    /\ reader.current_size < reader.size
    /\ Len(reader.entries) < MaxIter
    /\ LET r == ReadEntryAt(buffer, reader.pos)
       IN  IF r.tag # "Ok"
           THEN /\ reader' = [reader EXCEPT !.pc = "failed"]
                /\ reads' = Append(reads, r)
           ELSE /\ reader' =
                      [reader EXCEPT
                          !.pos = r.pos,
                          !.current_size = @ + r.entry.entry_header.header_size
                                             + r.entry.entry_header.size,
                          !.entries = Append(@, r.entry)]
                /\ reads' = reads
    /\ UNCHANGED <<fatbin, buffer, result, last, nops, written, entry, call, dec>>

\* the loop condition fails: Ok(FatBinary { entries })
ReadReturn ==
    /\ reader.pc = "loop"
    /\ ~(reader.current_size < reader.size)
    /\ reads' = Append(reads, [tag |-> "Ok", fatbin |-> reader.entries,
                               pos |-> reader.pos])
    /\ reader' = [NoReader EXCEPT !.pos = reader.pos]
    /\ UNCHANGED <<fatbin, buffer, result, last, nops, written, entry, call, dec>>

NextRead ==
    \/ ReadOpen
    \/ ReadEntry
    \/ ReadReturn

SpecRead == InitRead /\ [][NextRead]_vars

\* the first call returns what FatBinary::read returns as a whole
ReadAgrees ==
    (Len(reads) >= 1 /\ Read(buffer, 0).tag # "Running") => reads[1] = Read(buffer, 0)

\* C11: read terminates on every finite input, also when entry headers
\* declare header_size below 64: every iteration of the entry loop moves the
\* reader or adds to the consumed count, so no iteration repeats on the same
\* bytes with the same count for ever.
C11_LoopAdvances ==
    [][(reader.pc = "loop" /\ reader'.pc = "loop")
          => <<reader'.pos, reader'.current_size>>
                # <<reader.pos, reader.current_size>>]_vars

\* C12: with two containers written back to back, a successful read of the
\* first leaves the reader at the first byte of the second, which is 16 plus
\* the first container's size field, and the two reads return the first and
\* then the second container.
C12_Concatenated ==
    (Len(written) = 2 /\ Len(reads) >= 1) =>
        /\ reads[1].tag = "Ok"
        /\ reads[1].pos = Len(WriteBytes(written[1]))
        /\ reads[1].pos = 16 + FromLE(SubSeq(buffer, 9, 16))
        /\ reads[1].fatbin = written[1]
        /\ Len(reads) >= 2 => (reads[2].tag = "Ok" /\ reads[2].fatbin = written[2])

\* the part of C12 about the position, and the entries up to the header
\* fields write recomputes and the strings it turns from absent to empty
C12_PositionOnly ==
    (Len(written) = 2 /\ Len(reads) >= 1) =>
        /\ reads[1].tag = "Ok"
        /\ reads[1].pos = Len(WriteBytes(written[1]))
        /\ reads[1].pos = 16 + FromLE(SubSeq(buffer, 9, 16))
        /\ Len(reads[1].fatbin) = Len(written[1])
        /\ Len(reads) >= 2 => (reads[2].tag = "Ok" /\ reads[2].pos = Len(buffer))

(***************************************************************************)
(* The decompressor, fn decompress.  Positions are 0-based as in the code: *)
(* compressed[p] is c[p + 1].  An index or slice out of bounds, and a      *)
(* subtraction below zero, end the call in a panic.                        *)
(***************************************************************************)
Panic == [tag |-> "Panic"]

\* let x = v; Op(x): v is evaluated once, whatever Op does with x
Once(v, Op(_)) == CHOOSE r \in { Op(x) : x \in {v} } : TRUE

\* a length extension stopping on the first byte below 0xff without adding it
RECURSIVE ExtendExclusive(_, _, _)
ExtendExclusive(c, p, len) ==
    IF p >= Len(c) THEN Panic
    ELSE IF c[p + 1] # 255 THEN [tag |-> "Ok", len |-> len, next |-> p + 1]
    ELSE ExtendExclusive(c, p + 1, len + c[p + 1])

\* the two extension loops: bytes from position p on are added to len up to
\* and including the first that is not 0xff; next is the position after it
RECURSIVE Extend(_, _, _)
Extend(c, p, len) ==
    IF p >= Len(c) THEN Panic
    ELSE IF c[p + 1] # 255 THEN [tag |-> "Ok", len |-> len + c[p + 1], next |-> p + 1]
    ELSE Extend(c, p + 1, len + c[p + 1])

\* the exhaustion check taken one byte late
ExhaustedLate(c, in_pos) == in_pos > Len(c)

\* if in_pos >= compressed.len() { break; }
Exhausted(c, in_pos) == in_pos >= Len(c)

\* a push repeating the byte at res_len - back_offset
PushMatchFixed(res, res_len, back_offset, i) ==
    Append(res, res[res_len - back_offset + 1])

\* res.push(res[res_len - back_offset + i])
PushMatch(res, res_len, back_offset, i) ==
    Append(res, res[res_len - back_offset + i + 1])

\* res_len - back_offset + i is computed and is an index of res
MatchIndexOk(res, res_len, back_offset, i) ==
    /\ back_offset <= res_len
    /\ res_len - back_offset + i < Len(res)

\* for i in 0..next_compressed_len { res.push(res[res_len - back_offset + i]) }
\* from iteration i on
RECURSIVE CopyMatch(_, _, _, _, _)
CopyMatch(res, res_len, back_offset, i, n) ==
    IF i >= n THEN [tag |-> "Ok", res |-> res]
    ELSE IF ~MatchIndexOk(res, res_len, back_offset, i) THEN Panic
    ELSE Once(PushMatch(res, res_len, back_offset, i),
              LAMBDA pushed : CopyMatch(pushed, res_len, back_offset, i + 1, n))

\* one iteration of the while loop up to its for loop, entered with
\* in_pos < compressed.len()
TokenHead(c, in_pos, res) ==
    LET ctl == c[in_pos + 1]
        nibble_len == ctl \div 16
        lit == IF nibble_len = 15 THEN Extend(c, in_pos + 1, nibble_len)
               ELSE [tag |-> "Ok", len |-> nibble_len, next |-> in_pos + 1]
    IN  IF lit.tag # "Ok" THEN Panic
        ELSE IF lit.next + lit.len > Len(c) THEN Panic
        ELSE
          LET res1 == res \o SubSeq(c, lit.next + 1, lit.next + lit.len)
              p == lit.next + lit.len
          IN  IF Exhausted(c, p)
              THEN [tag |-> "Ok", done |-> TRUE, in_pos |-> p, res |-> res1,
                    lit |-> lit.len, matched |-> FALSE, mlen |-> 0,
                    back_offset |-> 0, res_len |-> Len(res1)]
              ELSE IF p + 1 >= Len(c) THEN Panic
              ELSE
                LET back_offset == c[p + 1] + 256 * c[p + 2]
                    base == 4 + (ctl % 16)
                    m == IF base = 15 + 4 THEN Extend(c, p + 2, base)
                         ELSE [tag |-> "Ok", len |-> base, next |-> p + 2]
                IN  IF m.tag # "Ok" THEN Panic
                    ELSE [tag |-> "Ok", done |-> FALSE, in_pos |-> m.next,
                          res |-> res1, lit |-> lit.len, matched |-> TRUE,
                          mlen |-> m.len, back_offset |-> back_offset,
                          res_len |-> Len(res1)]

\* the rest of the iteration after TokenHead returned h
TokenCopy(h) ==
    IF h.tag # "Ok" THEN Panic
    ELSE IF ~h.matched THEN h
    ELSE Once(CopyMatch(h.res, h.res_len, h.back_offset, 0, h.mlen),
              LAMBDA copied : IF copied.tag # "Ok" THEN Panic
                              ELSE [h EXCEPT !.res = copied.res])

\* one whole iteration of the while loop
DecompressToken(c, in_pos, res) == Once(TokenHead(c, in_pos, res), TokenCopy)

\* fn decompress from the state (in_pos, res) on: Panic or the bytes returned
RECURSIVE DecompressFrom(_, _, _)
DecompressFrom(c, in_pos, res) ==
    IF ~(in_pos < Len(c)) THEN [tag |-> "Ok", res |-> res]
    ELSE Once(DecompressToken(c, in_pos, res),
              LAMBDA t : IF t.tag # "Ok" THEN Panic
                         ELSE IF t.done THEN [tag |-> "Ok", res |-> t.res]
                         ELSE DecompressFrom(c, t.in_pos, t.res))

\* fn decompress(compressed: &[u8]) -> Vec<u8>
Decompress(c) == DecompressFrom(c, 0, <<>>)

(***************************************************************************)
(* The decompressor run on one input, one step per token and one per byte  *)
(* of a match.  dec holds the input, in_pos and res, the counter i of the  *)
(* for loop, and what the last token was: the position of its control      *)
(* byte, its literal and match lengths and its back_offset.                *)
(***************************************************************************)
\* n times the byte b
Rep(b, n) == [i \in 1..n |-> b]

RECURSIVE SeqsUpTo(_, _)
SeqsUpTo(S, n) ==
    IF n = 0 THEN { <<>> }
    ELSE LET shorter == SeqsUpTo(S, n - 1)
         IN  shorter \cup { Append(q, b) : q \in shorter, b \in S }

\* longest input made of the bytes of TokenBytes
MaxInput == 4
\* control bytes 0x00 0x01 0x10 0x11, which are also lengths and offsets, and 0xff
TokenBytes == {0, 1, 16, 17, 255}

\* token streams with length extensions, overlapping matches and an
\* exhausted input after the literals
LongInputs ==
    { <<48, 65, 66, 67>>,
      <<63, 65, 66, 67>>,
      <<32, 65, 66, 2, 0>>,
      <<32, 65, 66, 2, 0, 16, 67, 1, 0>>,
      <<33, 65, 66, 1, 0, 0>>,
      <<240, 0>> \o Rep(65, 15),
      <<240, 2>> \o Rep(66, 17) \o <<1, 0>>,
      <<240, 255, 1>> \o Rep(67, 271),
      <<240, 255, 1>> \o Rep(67, 270),
      <<31, 65, 1, 0, 3>>,
      <<31, 65, 1, 0, 255, 0>>,
      <<31, 65, 1, 0, 255, 255, 2, 0>>,
      <<47, 65, 66, 2, 0, 255>>,
      <<255, 1>> \o Rep(68, 16) \o <<16, 0, 255, 4>>,
      <<255, 255, 1>> \o Rep(69, 271) \o <<1, 0, 255, 0>> }

DecInputs == SeqsUpTo(TokenBytes, MaxInput) \cup LongInputs

InitDecompress ==
    /\ IdleContainer
    /\ buffer = <<>>
    /\ IdleStream
    /\ IdleEntry
    /\ \E c \in DecInputs :
          dec = [pc |-> "loop", input |-> c, in_pos |-> 0, res |-> <<>>,
                 ntok |-> 0, start |-> 0, lit |-> 0, matched |-> FALSE,
                 mlen |-> 0, back_offset |-> 0, res_len |-> 0, i |-> 0]

IdleButDec == UNCHANGED <<fatbin, buffer, result, last, nops, written, reader,
                          reads, entry, call>>

\* one iteration of the while loop up to its for loop
DecToken ==
    /\ dec.pc = "loop"
    /\ dec.in_pos < Len(dec.input)
    /\ LET t == TokenHead(dec.input, dec.in_pos, dec.res)
       IN  IF t.tag # "Ok"
           THEN dec' = [dec EXCEPT !.pc = "panic", !.start = dec.in_pos,
                                   !.ntok = @ + 1]
           ELSE dec' = [pc |-> IF t.done THEN "done" ELSE "copy",
                        input |-> dec.input, in_pos |-> t.in_pos, res |-> t.res,
                        ntok |-> dec.ntok + 1, start |-> dec.in_pos,
                        lit |-> t.lit, matched |-> t.matched, mlen |-> t.mlen,
                        back_offset |-> t.back_offset, res_len |-> t.res_len,
                        i |-> 0]
    /\ IdleButDec

\* one iteration of the for loop
DecCopy ==
    /\ dec.pc = "copy"
    /\ dec.i < dec.mlen
    /\ IF MatchIndexOk(dec.res, dec.res_len, dec.back_offset, dec.i)
       THEN dec' = [dec EXCEPT
                      !.res = PushMatch(dec.res, dec.res_len, dec.back_offset, dec.i),
                      !.i = @ + 1]
       ELSE dec' = [dec EXCEPT !.pc = "panic"]
    /\ IdleButDec

\* the for loop ends: back to the while condition
DecCopied ==
    /\ dec.pc = "copy"
    /\ ~(dec.i < dec.mlen)
    /\ dec' = [dec EXCEPT !.pc = "loop"]
    /\ IdleButDec

\* the while condition fails: res is returned
DecReturn ==
    /\ dec.pc = "loop"
    /\ ~(dec.in_pos < Len(dec.input))
    /\ dec' = [dec EXCEPT !.pc = "done"]
    /\ IdleButDec

NextDecompress ==
    \/ DecToken
    \/ DecCopy
    \/ DecCopied
    \/ DecReturn

SpecDecompress == InitDecompress /\ [][NextDecompress]_vars

\* on the short inputs the run ends as fn decompress does
DecAgrees ==
    Len(dec.input) <= MaxInput =>
        /\ dec.pc = "done" => Decompress(dec.input) = [tag |-> "Ok", res |-> dec.res]
        /\ dec.pc = "panic" => Decompress(dec.input) = Panic

(***************************************************************************)
(* What a token says, read off the input: the control byte is at position  *)
(* start, its high nibble the literal length and its low nibble the match  *)
(* length less four.                                                       *)
(***************************************************************************)
HasBelow(c, q) == \E j \in q..(Len(c) - 1) : c[j + 1] # 255

\* position of the first byte that is not 0xff, from position q on
FirstBelow(c, q) ==
    CHOOSE j \in q..(Len(c) - 1) :
        c[j + 1] # 255 /\ \A k \in q..(j - 1) : c[k + 1] = 255

\* sum of the bytes from q up to and including the first that is not 0xff
ExtensionSum(c, q) == 255 * (FirstBelow(c, q) - q) + c[FirstBelow(c, q) + 1]

LitNibble(c, start) == c[start + 1] \div 16
MatchNibble(c, start) == c[start + 1] % 16

LitLen(c, start) ==
    IF LitNibble(c, start) = 15 THEN 15 + ExtensionSum(c, start + 1)
    ELSE LitNibble(c, start)

\* position of the first literal byte
LitFirst(c, start) ==
    IF LitNibble(c, start) = 15 THEN FirstBelow(c, start + 1) + 1
    ELSE start + 1

\* position of the back_offset
AfterLit(c, start) == LitFirst(c, start) + LitLen(c, start)

\* C18: a literal nibble of 0xF gives the literal length 15 plus the extension
\* bytes up to and including the first that is not 0xFF, and the literals
\* follow them; a match nibble of 0xF gives the match length 19 plus the
\* extension bytes read after the 2-byte little-endian back_offset; a nibble
\* below 0xF reads no extension byte and gives the literal length L and the
\* match length M + 4.
C18_TokenLengths ==
    (dec.pc \in {"loop", "copy", "done"} /\ dec.ntok > 0) =>
        LET c == dec.input
            a == AfterLit(c, dec.start)
        IN  /\ dec.lit = LitLen(c, dec.start)
            /\ dec.res_len >= dec.lit
            /\ SubSeq(dec.res, dec.res_len - dec.lit + 1, dec.res_len)
                  = SubSeq(c, LitFirst(c, dec.start) + 1, a)
            /\ ~dec.matched => dec.in_pos = a
            /\ dec.matched =>
                  /\ dec.back_offset = c[a + 1] + 256 * c[a + 2]
                  /\ dec.mlen = IF MatchNibble(c, dec.start) = 15
                                THEN 19 + ExtensionSum(c, a + 2)
                                ELSE MatchNibble(c, dec.start) + 4
                  /\ dec.in_pos = IF MatchNibble(c, dec.start) = 15
                                  THEN FirstBelow(c, a + 2) + 1
                                  ELSE a + 2

\* both lengths of one token extended over a 0xFF byte
C18_Witness ==
    /\ dec.pc = "loop"
    /\ dec.input = <<255, 255, 1>> \o Rep(69, 271) \o <<1, 0, 255, 0>>
    /\ dec.lit = 271
    /\ dec.mlen = 274
    /\ dec.in_pos = Len(dec.input)

\* C19: the i-th byte a match appends is output[n - back_offset + i], n being
\* the output length when the copy starts, so a match longer than its
\* back_offset repeats the last back_offset bytes cyclically; the output grows
\* by exactly the match length.
C19_MatchCopy ==
    (dec.pc \in {"loop", "copy", "done"} /\ dec.matched) =>
        LET n == dec.res_len
            copied == IF dec.pc = "copy" THEN dec.i ELSE dec.mlen
        IN  /\ Len(dec.res) = n + copied
            /\ \A i \in 0..(copied - 1) :
                  /\ dec.res[n + i + 1] = dec.res[n - dec.back_offset + i + 1]
                  /\ dec.res[n + i + 1]
                        = dec.res[n - dec.back_offset + (i % dec.back_offset) + 1]

\* "AB" followed by a match of 4 bytes at back_offset 2
C19_Witness ==
    /\ dec.pc = "loop"
    /\ dec.matched
    /\ dec.back_offset = 2
    /\ dec.mlen = 4
    /\ dec.res = <<65, 66, 65, 66, 65, 66>>

\* C20: when the literals of a token end the input, whatever its match nibble,
\* the decompressor stops and returns the output with those literals, reading
\* no match; 0x30 'A' 'B' 'C' gives "ABC".
C20_Exhausted ==
    [][(/\ dec.pc = "loop"
        /\ dec.in_pos < Len(dec.input)
        /\ LitNibble(dec.input, dec.in_pos) = 15 => HasBelow(dec.input, dec.in_pos + 1)
        /\ AfterLit(dec.input, dec.in_pos) = Len(dec.input))
          => /\ dec'.pc = "done"
             /\ ~dec'.matched
             /\ dec'.in_pos = Len(dec.input)
             /\ dec'.res = dec.res \o SubSeq(dec.input,
                                            LitFirst(dec.input, dec.in_pos) + 1,
                                            Len(dec.input))
             /\ dec.input = <<48, 65, 66, 67>> => dec'.res = <<65, 66, 67>>]_vars

C20_Witness ==
    /\ dec.pc = "done"
    /\ dec.input = <<48, 65, 66, 67>>
    /\ dec.ntok = 1
    /\ dec.res = <<65, 66, 67>>

(***************************************************************************)
(* One entry: FatBinaryEntry::new, new_auto, decompress, host, producer.   *)
(***************************************************************************)
FATBINARY_FLAG_DEBUG == 2
FATBINARY_FLAG_PRODUCER_CUDA == 4
FATBINARY_FLAG_PRODUCER_OPENCL == 8
FATBINARY_FLAG_HOST_LINUX == 16
FATBINARY_FLAG_HOST_MAC == 32
FATBINARY_FLAG_HOST_WINDOWS == 64

\* (flags & bit) != 0, bit a power of two
HasFlag(flags, bit) == (flags \div bit) % 2 = 1

\* flags & !bit
ClearFlag(flags, bit) == IF HasFlag(flags, bit) THEN flags - bit ELSE flags

\* a prefix test passing when the payload ends before the prefix does
StartsWithShort(payload, prefix) ==
    \A k \in 1..Len(prefix) : k <= Len(payload) => payload[k] = prefix[k]

\* payload.starts_with(prefix)
StartsWith(payload, prefix) ==
    /\ Len(payload) >= Len(prefix)
    /\ SubSeq(payload, 1, Len(prefix)) = prefix

\* FatBinaryEntry::new_auto
new_auto(sm_arch, payload) ==
    LET is_elf == StartsWith(payload, <<127, 69, 76, 70>>)
    IN  New(is_elf, sm_arch, 0, 0, TRUE, payload)

\* FatBinaryEntry::is_compressed
is_compressed(e) == HasFlag(e.entry_header.flags, FATBINARY_FLAG_COMPRESSED)

\* decompress leaving the size field as it was
entry_decompress_size_kept(e) ==
    LET h == e.entry_header
    IN  IF ~is_compressed(e) THEN [tag |-> "Ok", entry |-> e]
        ELSE IF h.compressed_size > Len(e.payload) THEN [tag |-> "Panic", entry |-> e]
        ELSE
          LET d == Decompress(SubSeq(e.payload, 1, h.compressed_size))
          IN  IF d.tag # "Ok" THEN [tag |-> "Panic", entry |-> e]
              ELSE
                LET e1 == [e EXCEPT
                             !.payload = d.res,
                             !.entry_header.flags =
                                 ClearFlag(@, FATBINARY_FLAG_COMPRESSED)]
                IN  IF Len(d.res) # h.decompressed_size
                    THEN [tag |-> "Panic", entry |-> e1]
                    ELSE [tag |-> "Ok",
                          entry |-> [e1 EXCEPT
                                       !.entry_header.compressed_size = 0,
                                       !.entry_header.decompressed_size = 0]]

\* decompress leaving the compressed flag set
entry_decompress_flagged(e) ==
    LET h == e.entry_header
    IN  IF ~is_compressed(e) THEN [tag |-> "Ok", entry |-> e]
        ELSE IF h.compressed_size > Len(e.payload) THEN [tag |-> "Panic", entry |-> e]
        ELSE
          LET d == Decompress(SubSeq(e.payload, 1, h.compressed_size))
          IN  IF d.tag # "Ok" THEN [tag |-> "Panic", entry |-> e]
              ELSE
                LET e1 == [e EXCEPT !.payload = d.res]
                IN  IF Len(d.res) # h.decompressed_size
                    THEN [tag |-> "Panic", entry |-> e1]
                    ELSE [tag |-> "Ok",
                          entry |-> [e1 EXCEPT
                                       !.entry_header.size = h.decompressed_size,
                                       !.entry_header.compressed_size = 0,
                                       !.entry_header.decompressed_size = 0]]

\* FatBinaryEntry::decompress; a panic leaves the entry as it is at that point
entry_decompress(e) ==
    LET h == e.entry_header
    IN  IF ~is_compressed(e) THEN [tag |-> "Ok", entry |-> e]
        ELSE IF h.compressed_size > Len(e.payload) THEN [tag |-> "Panic", entry |-> e]
        ELSE
          LET d == Decompress(SubSeq(e.payload, 1, h.compressed_size))
          IN  IF d.tag # "Ok" THEN [tag |-> "Panic", entry |-> e]
              ELSE
                LET e1 == [e EXCEPT
                             !.payload = d.res,
                             !.entry_header.flags =
                                 ClearFlag(@, FATBINARY_FLAG_COMPRESSED)]
                IN  IF Len(d.res) # h.decompressed_size
                    THEN [tag |-> "Panic", entry |-> e1]
                    ELSE [tag |-> "Ok",
                          entry |-> [e1 EXCEPT
                                       !.entry_header.size = h.decompressed_size,
                                       !.entry_header.compressed_size = 0,
                                       !.entry_header.decompressed_size = 0]]

\* host testing the debug bit for Mac
host_debug(e) ==
    LET flags == e.entry_header.flags
    IN  IF HasFlag(flags, FATBINARY_FLAG_HOST_LINUX) THEN "Linux"
        ELSE IF HasFlag(flags, FATBINARY_FLAG_DEBUG) THEN "Mac"
        ELSE IF HasFlag(flags, FATBINARY_FLAG_HOST_WINDOWS) THEN "Windows"
        ELSE "Unknown"

\* FatBinaryEntry::host
host(e) ==
    LET flags == e.entry_header.flags
    IN  IF HasFlag(flags, FATBINARY_FLAG_HOST_LINUX) THEN "Linux"
        ELSE IF HasFlag(flags, FATBINARY_FLAG_HOST_MAC) THEN "Mac"
        ELSE IF HasFlag(flags, FATBINARY_FLAG_HOST_WINDOWS) THEN "Windows"
        ELSE "Unknown"

\* FatBinaryEntry::producer
producer(e) ==
    LET flags == e.entry_header.flags
    IN  IF HasFlag(flags, FATBINARY_FLAG_PRODUCER_CUDA) THEN "CUDA"
        ELSE IF HasFlag(flags, FATBINARY_FLAG_PRODUCER_OPENCL) THEN "OpenCL"
        ELSE "Unknown"

(***************************************************************************)
(* The entry-level program: an entry is built by new or new_auto, or taken *)
(* from a container read from a stream, and then decompressed and          *)
(* classified.  call records the last call, its arguments and its return.  *)
(***************************************************************************)
\* payloads around the ELF magic 7F 45 4C 46
AutoPayloads ==
    { <<>>, <<65>>, <<127>>, <<127, 69>>, <<127, 69, 76>>, <<127, 69, 76, 70>>,
      <<127, 69, 76, 70, 0>>, <<127, 69, 76, 71>>, <<0, 127, 69, 76, 70>> }

\* every combination of the eight flag bits the library names
AllFlags ==
    { b1 * FATBINARY_FLAG_COMPILE_SIZE_64BIT + b2 * FATBINARY_FLAG_DEBUG
      + b3 * FATBINARY_FLAG_PRODUCER_CUDA + b4 * FATBINARY_FLAG_PRODUCER_OPENCL
      + b5 * FATBINARY_FLAG_HOST_LINUX + b6 * FATBINARY_FLAG_HOST_MAC
      + b7 * FATBINARY_FLAG_HOST_WINDOWS + b8 * FATBINARY_FLAG_COMPRESSED :
      b1 \in {0, 1}, b2 \in {0, 1}, b3 \in {0, 1}, b4 \in {0, 1},
      b5 \in {0, 1}, b6 \in {0, 1}, b7 \in {0, 1}, b8 \in {0, 1} }

\* a conventionally laid out PTX entry without strings, with the given flags
\* and sizes
FlaggedEntry(flags, compressed_size, decompressed_size, payload) ==
    EntryHeaderBytes([RawHeader(1, 72, Len(payload), 64, 0, 0) EXCEPT
                        !.flags = flags,
                        !.compressed_size = compressed_size,
                        !.decompressed_size = decompressed_size])
    \o ToLE(0, 4) \o ToLE(0, 4) \o payload

\* flags of a compressed entry: compressed, 64-bit, CUDA, Linux
CompressedFlags ==
    FATBINARY_FLAG_COMPRESSED + FATBINARY_FLAG_COMPILE_SIZE_64BIT
    + FATBINARY_FLAG_PRODUCER_CUDA + FATBINARY_FLAG_HOST_LINUX

\* compressed entries: padded, unpadded, empty, with a decompressed_size that
\* is not the output length, with a compressed_size beyond the payload, and
\* with a stream the decompressor panics on
CompressedEntries ==
    { FlaggedEntry(CompressedFlags, 5, 6, <<32, 65, 66, 2, 0, 0, 0, 0>>),
      FlaggedEntry(CompressedFlags, 4, 3, <<48, 65, 66, 67>>),
      FlaggedEntry(CompressedFlags, 9, 11, <<32, 65, 66, 2, 0, 16, 67, 1, 0, 7, 7>>),
      FlaggedEntry(FATBINARY_FLAG_COMPRESSED, 0, 0, <<>>),
      FlaggedEntry(CompressedFlags, 4, 7, <<48, 65, 66, 67>>),
      FlaggedEntry(CompressedFlags, 9, 3, <<48, 65, 66, 67>>),
      FlaggedEntry(CompressedFlags, 4, 5, <<16, 65, 5, 0>>) }

EntryInputs ==
    { Valid(FlaggedEntry(flags, 0, 0, <<65>>)) : flags \in AllFlags }
    \cup { Valid(body) : body \in CompressedEntries }

InitEntry ==
    /\ IdleContainer
    /\ buffer = <<>>
    /\ IdleStream
    /\ IdleEntry
    /\ IdleDec

IdleButEntry == UNCHANGED <<fatbin, buffer, result, last, nops, written, reader,
                            reads, dec>>

\* FatBinaryEntry::new(is_elf, sm_arch, major, minor, is_64bit, payload)
EntryNew ==
    /\ entry = None
    /\ \E is_elf \in BOOLEAN, is_64bit \in BOOLEAN, major \in {0, VersionMajor},
          minor \in {0, VersionMinor}, payload \in AutoPayloads :
          /\ entry' = Some(New(is_elf, SmArch, major, minor, is_64bit, payload))
          /\ call' = [op |-> "new", is_elf |-> is_elf, sm_arch |-> SmArch,
                      major |-> major, minor |-> minor, is_64bit |-> is_64bit,
                      payload |-> payload]
    /\ IdleButEntry

\* FatBinaryEntry::new_auto(sm_arch, payload)
EntryNewAuto ==
    /\ entry = None
    /\ \E payload \in AutoPayloads :
          /\ entry' = Some(new_auto(SmArch, payload))
          /\ call' = [op |-> "new_auto", sm_arch |-> SmArch, payload |-> payload]
    /\ IdleButEntry

\* FatBinary::read(stream)?.entries()[0]
EntryRead ==
    /\ entry = None
    /\ \E b \in EntryInputs :
          LET r == Read(b, 0)
          IN  /\ r.tag = "Ok"
              /\ entry' = Some(r.fatbin[1])
              /\ call' = [op |-> "read"]
    /\ IdleButEntry

\* entry.decompress()
EntryDecompress ==
    /\ entry # None
    /\ call.op # "panic"
    /\ LET r == entry_decompress(Unwrap(entry))
       IN  /\ entry' = Some(r.entry)
           /\ call' = IF r.tag = "Ok"
                      THEN [op |-> "decompress", before |-> Unwrap(entry)]
                      ELSE [op |-> "panic"]
    /\ IdleButEntry

\* entry.host()
EntryHost ==
    /\ entry # None
    /\ call.op # "panic"
    /\ call' = [op |-> "host", ret |-> host(Unwrap(entry))]
    /\ UNCHANGED entry
    /\ IdleButEntry

\* entry.producer()
EntryProducer ==
    /\ entry # None
    /\ call.op # "panic"
    /\ call' = [op |-> "producer", ret |-> producer(Unwrap(entry))]
    /\ UNCHANGED entry
    /\ IdleButEntry

NextEntry ==
    \/ EntryNew
    \/ EntryNewAuto
    \/ EntryRead
    \/ EntryDecompress
    \/ EntryHost
    \/ EntryProducer

SpecEntry == InitEntry /\ [][NextEntry]_vars

\* C13: decompress on an entry with the compressed flag set, whose
\* decompressor output has decompressed_size bytes, clears the flag, makes the
\* payload the decompressed bytes and size the former decompressed_size, and
\* zeroes compressed_size and decompressed_size, leaving all else; on an entry
\* without the flag it changes nothing; applying it again changes nothing.
C13_DecompressInPlace ==
    call.op = "decompress" =>
        LET b == call.before
            a == Unwrap(entry)
            bh == b.entry_header
            ah == a.entry_header
        IN  /\ HasFlag(bh.flags, 8192) =>
                  /\ ~HasFlag(ah.flags, 8192)
                  /\ ah.flags = bh.flags - 8192
                  /\ a.payload = Decompress(SubSeq(b.payload, 1, bh.compressed_size)).res
                  /\ Len(a.payload) = bh.decompressed_size
                  /\ ah.size = bh.decompressed_size
                  /\ ah.compressed_size = 0
                  /\ ah.decompressed_size = 0
                  /\ a = [b EXCEPT !.payload = a.payload,
                                   !.entry_header.flags = ah.flags,
                                   !.entry_header.size = ah.size,
                                   !.entry_header.compressed_size = 0,
                                   !.entry_header.decompressed_size = 0]
            /\ ~HasFlag(bh.flags, 8192) => a = b
            /\ entry_decompress(a) = [tag |-> "Ok", entry |-> a]

\* a padded compressed payload decompressed to "ABABAB"
C13_Witness ==
    /\ call.op = "decompress"
    /\ HasFlag(call.before.entry_header.flags, 8192)
    /\ call.before.payload = <<32, 65, 66, 2, 0, 0, 0, 0>>
    /\ Unwrap(entry).payload = <<65, 66, 65, 66, 65, 66>>
    /\ Unwrap(entry).entry_header.size = 6

\* C15: new_auto returns an ELF entry (kind 2) exactly when the payload starts
\* with 7F 45 4C 46 and a PTX entry (kind 1) otherwise, payloads shorter than
\* four bytes included; major and minor are 0 and the 64-bit flag is set.
C15_NewAuto ==
    call.op = "new_auto" =>
        LET h == Unwrap(entry).entry_header
            p == call.payload
            elf == /\ Len(p) >= 4
                   /\ p[1] = 127 /\ p[2] = 69 /\ p[3] = 76 /\ p[4] = 70
        IN  /\ h.kind = IF elf THEN 2 ELSE 1
            /\ Len(p) < 4 => h.kind = 1
            /\ h.major = 0
            /\ h.minor = 0
            /\ HasFlag(h.flags, 1)
            /\ h.arch = call.sm_arch
            /\ Unwrap(entry).payload = p

\* a payload that is a proper prefix of the ELF magic gives a PTX entry
C15_Witness ==
    /\ call.op = "new_auto"
    /\ call.payload = <<127, 69, 76>>
    /\ Unwrap(entry).entry_header.kind = 1

\* C16: new yields kind 2 if is_elf else 1, reserved1 0x0101, header_size 64,
\* options_offset 0x40 for ELF and PTX alike, flags exactly the 64-bit bit if
\* is_64bit else 0, compressed_size, decompressed_size, identifier_offset and
\* identifier_len zero, and neither identifier nor ptxas options.
C16_New ==
    call.op = "new" =>
        LET e == Unwrap(entry)
            h == e.entry_header
        IN  /\ h.kind = IF call.is_elf THEN 2 ELSE 1
            /\ h.unknown1 = 257
            /\ h.header_size = 64
            /\ h.options_offset = 64
            /\ h.flags = IF call.is_64bit THEN 1 ELSE 0
            /\ h.compressed_size = 0
            /\ h.decompressed_size = 0
            /\ h.identifier_offset = 0
            /\ h.identifier_len = 0
            /\ e.identifier = None
            /\ e.ptxas_options = None

\* an ELF entry with options_offset 0x40
C16_Witness ==
    /\ call.op = "new"
    /\ call.is_elf
    /\ ~call.is_64bit
    /\ Unwrap(entry).entry_header.kind = 2
    /\ Unwrap(entry).entry_header.options_offset = 64

\* the bits of flags that lie in mask, a set of powers of two
Lit(flags, mask) == { bit \in mask : HasFlag(flags, bit) }

HostMask == {16, 32, 64}
ProducerMask == {4, 8}

\* C17: host depends only on the flag bits 0x10, 0x20, 0x40 and producer only
\* on 0x04, 0x08: one bit of the mask lit gives the matching variant, none
\* gives Unknown, and entries that differ only in flag bits outside the mask
\* are classified alike.
C17_Classifiers ==
    /\ call.op = "host" =>
          LET e == Unwrap(entry)
              lit == Lit(e.entry_header.flags, HostMask)
          IN  /\ lit = {16} => call.ret = "Linux"
              /\ lit = {32} => call.ret = "Mac"
              /\ lit = {64} => call.ret = "Windows"
              /\ lit = {} => call.ret = "Unknown"
              /\ \A flags \in AllFlags :
                    Lit(flags, HostMask) = lit
                       => host([e EXCEPT !.entry_header.flags = flags]) = call.ret
    /\ call.op = "producer" =>
          LET e == Unwrap(entry)
              lit == Lit(e.entry_header.flags, ProducerMask)
          IN  /\ lit = {4} => call.ret = "CUDA"
              /\ lit = {8} => call.ret = "OpenCL"
              /\ lit = {} => call.ret = "Unknown"
              /\ \A flags \in AllFlags :
                    Lit(flags, ProducerMask) = lit
                       => producer([e EXCEPT !.entry_header.flags = flags]) = call.ret

\* Mac returned with every flag bit outside the host mask lit
C17_Witness ==
    /\ call.op = "host"
    /\ call.ret = "Mac"
    /\ Unwrap(entry).entry_header.flags = 32 + 8192 + 1 + 2 + 4 + 8

(***************************************************************************)
(* Containers with compressed entries: a stream is read, and the container *)
(* read is written back, its entries decompressed or not.                  *)
(***************************************************************************)
CompressedStreams ==
    { Valid(body) : body \in CompressedEntries }
    \cup { Valid(FlaggedEntry(CompressedFlags, 5, 6, <<32, 65, 66, 2, 0, 0, 0, 0>>)
                 \o ConventionalEntry(1, <<45, 79>>, <<107>>, <<65>>)),
           Valid(ConventionalEntry(2, <<>>, <<107>>, <<127, 69, 76, 70, 0>>)
                 \o FlaggedEntry(CompressedFlags, 4, 3, <<48, 65, 66, 67>>)) }

InitCompressed ==
    /\ IdleContainer
    /\ buffer \in CompressedStreams
    /\ IdleStream
    /\ IdleEntry
    /\ IdleDec

\* FatBinary::read of the stream
CompressedRead ==
    /\ last # "panic"
    /\ ReadBuffer

\* fatbin.write(..)
CompressedWrite ==
    /\ last # "panic"
    /\ Write

\* entries_mut()[i].decompress()
DecompressAt ==
    /\ last # "panic"
    /\ \E i \in 1..Len(fatbin) :
          LET r == entry_decompress(fatbin[i])
          IN  /\ fatbin' = [fatbin EXCEPT ![i] = r.entry]
              /\ Step(IF r.tag = "Ok" THEN "decompress" ELSE "panic")
    /\ UNCHANGED <<buffer, result>>

NextCompressed ==
    \/ CompressedRead
    \/ CompressedWrite
    \/ DecompressAt

SpecCompressed == InitCompressed /\ [][NextCompressed]_vars

\* where read finds the k-th entry of the stream buf
RECURSIVE StreamEntryStart(_, _)
StreamEntryStart(buf, k) ==
    IF k = 1 THEN 16
    ELSE LET s == StreamEntryStart(buf, k - 1)
         IN  s + FromLE(SubSeq(buf, s + 5, s + 8)) + FromLE(SubSeq(buf, s + 9, s + 16))

\* the bytes of entry header field lo..hi (1-based) of the entry at start
FieldBytes(buf, start, lo, hi) == SubSeq(buf, start + lo, start + hi)

\* C14: when a container read from a stream is written without a call to
\* decompress, every entry read with the compressed flag set is emitted with
\* all its size payload bytes as they were in the stream, padding after the
\* first compressed_size bytes included, and with the flags, size,
\* compressed_size and decompressed_size fields of the stream; write changes
\* no entry of the container.
C14_CompressedReemit ==
    [][(last = "read" /\ result.tag = "Ok" /\ last' = "write") =>
          /\ fatbin' = fatbin
          /\ \A k \in 1..Len(fatbin) :
                is_compressed(fatbin[k]) =>
                    LET in == StreamEntryStart(buffer, k)
                        in_hs == FromLE(FieldBytes(buffer, in, 5, 8))
                        size == FromLE(FieldBytes(buffer, in, 9, 16))
                        out == EntryStart(k)
                        e == fatbin[k]
                        pay == out + 72 + Len(BytesOrEmpty(e.ptxas_options))
                                   + Len(BytesOrEmpty(e.identifier))
                    IN  /\ Len(buffer') >= pay + size
                        /\ SubSeq(buffer', pay + 1, pay + size)
                              = SubSeq(buffer, in + in_hs + 1, in + in_hs + size)
                        /\ k < Len(fatbin) => EntryStart(k + 1) = pay + size
                        /\ k = Len(fatbin) => Len(buffer') = pay + size
                        /\ FieldBytes(buffer', out, 41, 48) = FieldBytes(buffer, in, 41, 48)
                        /\ FieldBytes(buffer', out, 9, 16) = FieldBytes(buffer, in, 9, 16)
                        /\ FieldBytes(buffer', out, 17, 20) = FieldBytes(buffer, in, 17, 20)
                        /\ FieldBytes(buffer', out, 57, 64) = FieldBytes(buffer, in, 57, 64)]_vars

\* a padded compressed entry read and written back: five compressed bytes
\* and three bytes of padding emitted
C14_Witness ==
    /\ last = "write"
    /\ nops = 2
    /\ result.tag = "Ok"
    /\ Len(fatbin) = 1
    /\ is_compressed(fatbin[1])
    /\ fatbin[1].entry_header.compressed_size = 5
    /\ Len(buffer) = 16 + 72 + 8
    /\ SubSeq(buffer, 89, 96) = <<32, 65, 66, 2, 0, 0, 0, 0>>

(***************************************************************************)
(* Streams of one entry whose descriptor, ptxas options and identifier sit *)
(* anywhere in the header region, read once.  call keeps the pieces the    *)
(* stream was laid out from.                                               *)
(***************************************************************************)
\* longest gap between two pieces of the header region
MaxGap == 1

\* the orders of descriptor "d", ptxas options "o" and identifier "i"
Orders ==
    { <<"d", "o", "i">>, <<"d", "i", "o">>, <<"o", "d", "i">>,
      <<"o", "i", "d">>, <<"i", "d", "o">>, <<"i", "o", "d">> }

\* gaps before the first, second and third piece and before the payload
Gaps == { <<g1, g2, g3, g4>> : g1 \in 0..MaxGap, g2 \in 0..MaxGap,
                               g3 \in 0..MaxGap, g4 \in 0..MaxGap }

PieceLen(piece, opts, id) ==
    IF piece = "d" THEN 8 ELSE IF piece = "o" THEN Len(opts) ELSE Len(id)

\* offset from the entry start of the k-th piece of the order
RECURSIVE PieceOffset(_, _, _, _, _)
PieceOffset(order, gaps, opts, id, k) ==
    IF k = 1 THEN 64 + gaps[1]
    ELSE PieceOffset(order, gaps, opts, id, k - 1)
         + PieceLen(order[k - 1], opts, id) + gaps[k]

\* offset from the entry start of the piece named
OffsetOf(piece, order, gaps, opts, id) ==
    PieceOffset(order, gaps, opts, id, CHOOSE k \in 1..3 : order[k] = piece)

\* an entry laid out in the given order with the given gaps; zero_opts and
\* zero_id write the offset 0 although the bytes are there
LayoutEntry(order, gaps, opts, id, payload, zero_opts, zero_id) ==
    LET off(piece) == OffsetOf(piece, order, gaps, opts, id)
        bytes(piece) ==
            IF piece = "d"
            THEN ToLE(IF zero_opts THEN 0 ELSE off("o"), 4) \o ToLE(Len(opts), 4)
            ELSE IF piece = "o" THEN opts ELSE id
        header_size == PieceOffset(order, gaps, opts, id, 3)
                       + PieceLen(order[3], opts, id) + gaps[4]
    IN  EntryHeaderBytes(RawHeader(1, header_size, Len(payload), off("d"),
                                   IF zero_id THEN 0 ELSE off("i"), Len(id)))
        \o Rep(35, gaps[1]) \o bytes(order[1])
        \o Rep(35, gaps[2]) \o bytes(order[2])
        \o Rep(35, gaps[3]) \o bytes(order[3])
        \o Rep(35, gaps[4]) \o payload

InitLayout ==
    /\ IdleContainer
    /\ IdleStream
    /\ entry = None
    /\ IdleDec
    /\ \E order \in Orders, gaps \in Gaps, opts \in {<<>>, <<45, 79>>},
          id \in {<<>>, <<107>>}, zero_opts \in BOOLEAN, zero_id \in BOOLEAN :
          /\ buffer = Valid(LayoutEntry(order, gaps, opts, id, <<65, 66>>,
                                        zero_opts, zero_id))
          /\ call = [op |-> "layout", opts |-> opts, id |-> id,
                     payload |-> <<65, 66>>, zero_opts |-> zero_opts,
                     zero_id |-> zero_id]

\* FatBinary::read of the stream
LayoutRead ==
    /\ last = "new"
    /\ ReadBuffer

NextLayout ==
    \/ LayoutRead

SpecLayout == InitLayout /\ [][NextLayout]_vars

\* C21: read finds the ptxas options and the identifier by their offsets from
\* the entry start: whatever the order of the pieces in the header region and
\* the gaps between them, it returns the identifier, ptxas options and payload
\* the stream was laid out from; an identifier_offset of 0 gives no identifier
\* and a ptxas_options_offset of 0 no ptxas options.
C21_ByOffsets ==
    (last = "read" /\ call.op = "layout") =>
        /\ result.tag = "Ok"
        /\ Len(result.fatbin) = 1
        /\ result.fatbin[1].identifier
              = IF call.zero_id THEN None ELSE Some(call.id)
        /\ result.fatbin[1].ptxas_options
              = IF call.zero_opts THEN None ELSE Some(call.opts)
        /\ result.fatbin[1].payload = call.payload

\* identifier first, then a gap, the ptxas options, a gap and the descriptor
C21_Witness ==
    /\ last = "read"
    /\ call.op = "layout"
    /\ FromLE(SubSeq(buffer, 16 + 33, 16 + 36)) = 64
    /\ FromLE(SubSeq(buffer, 16 + 21, 16 + 24)) = 64 + 1 + 1 + 2 + 1
    /\ result.tag = "Ok"
    /\ result.fatbin[1].identifier = Some(<<107>>)
    /\ result.fatbin[1].ptxas_options = Some(<<45, 79>>)

\* C22: every entry of a container a successful read returns that has the
\* compressed flag set has compressed_size <= size and decompressed_size > 0.
C22_CompressedSizes ==
    (last = "read" /\ result.tag = "Ok") =>
        \A k \in 1..Len(result.fatbin) :
            LET h == result.fatbin[k].entry_header
            IN  is_compressed(result.fatbin[k])
                   => (h.compressed_size <= h.size /\ h.decompressed_size > 0)

(***************************************************************************)
(* The public operations together: entries built by new and new_auto are   *)
(* pushed and removed, identifiers and ptxas options set, entries          *)
(* decompressed, containers written and read, up to MaxCalls calls.        *)
(***************************************************************************)
MaxCalls == 3

\* the process has not panicked and may make another call
Public == last # "panic" /\ nops < MaxCalls

PublicStreams == CompressedStreams \cup ConventionalInputs \cup ShiftedInputs

InitPublic ==
    /\ IdleContainer
    /\ buffer = <<>>
    /\ IdleStream
    /\ IdleEntry
    /\ IdleDec

PublicPushNew == Public /\ PushNew

\* entries_mut().push(FatBinaryEntry::new_auto(..))
PublicPushNewAuto ==
    /\ Public
    /\ Len(fatbin) < MaxEntries
    /\ \E payload \in { <<>>, <<127, 69, 76, 70>> } :
          fatbin' = Append(fatbin, new_auto(SmArch, payload))
    /\ Step("push")
    /\ UNCHANGED <<buffer, result>>

PublicRemoveEntry == Public /\ RemoveEntry

PublicSetIdentifier == Public /\ SetIdentifier

PublicSetPtxasOptions == Public /\ SetPtxasOptions

PublicDecompress == Public /\ DecompressAt

PublicWrite == Public /\ Write

PublicRead == Public /\ ReadBuffer

\* the caller opens a byte stream produced elsewhere
PublicInput ==
    /\ Public
    /\ \E b \in PublicStreams : buffer' = b
    /\ Step("input")
    /\ UNCHANGED <<fatbin, result>>

NextPublic ==
    \/ PublicPushNew
    \/ PublicPushNewAuto
    \/ PublicRemoveEntry
    \/ PublicSetIdentifier
    \/ PublicSetPtxasOptions
    \/ PublicDecompress
    \/ PublicWrite
    \/ PublicRead
    \/ PublicInput

SpecPublic == InitPublic /\ [][NextPublic]_vars

\* C23: in every state reached through new, new_auto, a successful read,
\* set_identifier, set_ptxas_options, a decompress that returns, and pushes
\* and removals, the size field of each entry is the length of its payload.
C23_SizeIsPayloadLength ==
    last # "panic" =>
        /\ \A k \in 1..Len(fatbin) :
              fatbin[k].entry_header.size = Len(fatbin[k].payload)
        /\ result.tag = "Ok" =>
              \A k \in 1..Len(result.fatbin) :
                  result.fatbin[k].entry_header.size = Len(result.fatbin[k].payload)

\* a padded compressed entry of 8 bytes decompressed to the 6 bytes "ABABAB"
C23_Witness ==
    /\ last = "decompress"
    /\ Len(fatbin) = 1
    /\ fatbin[1].payload = <<65, 66, 65, 66, 65, 66>>
    /\ fatbin[1].entry_header.size = 6
    /\ Len(buffer) = 16 + 72 + 8

\* C24: on every input the decompressor ends without indexing the input at
\* or beyond its length and without indexing the output outside its bounds.
C24_InBounds == dec.pc # "panic"

====
